---- MODULE Spec2Model ----
(***************************************************************************)
(* Address-book backend (FastAPI + SQLAlchemy): the users table, the       *)
(* token-based session renewal of routes/auth.py and the contacts table of *)
(* routes/contacts.py and repository/contacts.py.                          *)
(*                                                                         *)
(* src/services/auth.py (password hashing, token issue and validation,     *)
(* get_current_user) is not part of the sources; those operators follow    *)
(* sections 4.1 and 4.2 of the specification.                              *)
(***************************************************************************)
EXTENDS Integers, Sequences, FiniteSets, TLC

(***************************************************************************)
(* Bounds of the model.                                                    *)
(***************************************************************************)
\* an access token is accepted up to AccessLife clock ticks after its issue
\* (spec 4.2: minutes)
AccessLife == 0
\* a refresh or email token is accepted up to RefreshLife clock ticks after
\* its issue (spec 4.2: days)
RefreshLife == 1
\* the clock runs from 0 to MaxTime, one tick past the refresh lifetime
MaxTime == RefreshLife + 1
\* contact ids handed out by the autoincrement primary key
MaxContacts == 2

\* the longest search text a search request carries
MaxTerm == 3

\* the longest lookahead, in days, a birthdays request asks for
MaxDays == 5

\* the requests that hold a database session at the same time
MaxRequests == 3

\* the requests a behaviour serves, each on a database session of its own
MaxServed == 2

Emails == {"a@x.ua", "b@x.ua", "c@x.ua"}
Usernames == {"ann", "bob"}
Passwords == {"pw1", "pw2"}
Names == {"Test", "Other"}
\* Query(10, ge=10, le=500): the smallest page size a request may ask for
LimitMin == 10
Scopes == {"access_token", "refresh_token", "email_token"}

VARIABLES
    users,      \* the users table: a sequence of rows, row i has id i
    contacts,   \* the contacts table: a set of rows with distinct ids
    nextId,     \* the next value of the contacts autoincrement key
    now,        \* the clock the token service reads
    resp,       \* the request handled last and its response
    issued,     \* history: per email, the refresh token issued last
    used,       \* history: refresh tokens answered 200, requests after them
    creator,    \* history: per contact id, who sent the create request
    reqs        \* the requests, one per database session

vars == <<users, contacts, nextId, now, resp, issued, used, creator, reqs>>

(***************************************************************************)
(* Values.                                                                 *)
(***************************************************************************)
\* Python's None where a token is expected
None == [scope |-> "none", sub |-> "none", iat |-> 0, sig |-> "none"]

\* get_user_by_email returning None
NoUser == [id |-> 0, username |-> "none", email |-> "none",
           password |-> <<"none", 0, "none">>, refresh_token |-> None,
           confirmed |-> FALSE]

\* a date that is None
NoDate == [year |-> 0, month |-> 0, day |-> 0]

Dates == {[year |-> 1990, month |-> 6, day |-> 12]}

\* scalar_one_or_none returning None where a contact is expected
NoContact == [id |-> 0, first_name |-> "none", last_name |-> "none",
              email |-> "none", phone_number |-> "none", birthday |-> NoDate]

\* the request bodies ContactSchema accepts; birthday is the one field that
\* may be left unset, and is NoDate then
ContactBodies ==
    [first_name : Names, last_name : {"Family"}, email : {"t@ua.ua"},
     phone_number : {"0501234567"}, birthday : Dates \cup {NoDate}]

\* the response of no request; of the token a request presents it records
\* the subject, the scope and whether it was signed by the service and
\* unexpired; queries counts the calls of the repository
NoResp == [op |-> "none", email |-> "none", scope |-> "none",
           intact |-> FALSE, status |-> 0,
           detail |-> "none", access_token |-> None, refresh_token |-> None,
           adds |-> 0, commits |-> 0, items |-> {},
           queries |-> 0]

\* the fields of ContactSchema, and those declared without a default
ContactFields ==
    {"first_name", "last_name", "email", "phone_number", "birthday"}

RequiredFields == {"first_name", "last_name", "email", "phone_number"}

\* ContactUpdateSchema(**payload): payload maps the fields the caller sent to
\* their values.  Validation fails when a field without default is missing;
\* birthday left out stays unset and model_dump(exclude_unset=True) omits it
ContactUpdateSchema(payload) ==
    IF RequiredFields \subseteq DOMAIN payload
    THEN [ok |-> TRUE,
          body |-> [first_name |-> payload.first_name,
                    last_name |-> payload.last_name,
                    email |-> payload.email,
                    phone_number |-> payload.phone_number,
                    birthday |-> IF "birthday" \in DOMAIN payload
                                 THEN payload.birthday ELSE NoDate]]
    ELSE [ok |-> FALSE, body |-> NoContact]

(***************************************************************************)
(* Credential hasher (spec 4.1): a digest is opaque, carries a per-call    *)
(* salt, and verifies exactly the plaintext it was made from.              *)
(***************************************************************************)
get_password_hash(plain, salt) == <<"digest", salt, plain>>

verify_password(plain, digest) == digest[1] = "digest" /\ digest[3] = plain

(***************************************************************************)
(* Token service (spec 4.2): a token is the signed claim set subject,      *)
(* issued-at, scope; its expiry is issued-at plus the lifetime of its      *)
(* kind.                                                                   *)
(***************************************************************************)
Lifetime(scope) ==
    IF scope = "access_token" THEN AccessLife ELSE RefreshLife

create_access_token(sub, t) ==
    [scope |-> "access_token", sub |-> sub, iat |-> t, sig |-> "ok"]

create_refresh_token(sub, t) ==
    [scope |-> "refresh_token", sub |-> sub, iat |-> t, sig |-> "ok"]

create_email_token(sub, t) ==
    [scope |-> "email_token", sub |-> sub, iat |-> t, sig |-> "ok"]

\* validate that does not look at the scope
validate_any_scope(tok, expected, t) ==
    /\ tok.sig = "ok"
    /\ t <= tok.iat + Lifetime(tok.scope)

\* validate(token, expected_kind): the signature verifies, the token is not
\* expired and its scope is the expected one
validate(tok, expected, t) ==
    /\ tok.sig = "ok"
    /\ t <= tok.iat + Lifetime(tok.scope)
    /\ tok.scope = expected

\* the signature verifies and the token is not expired, whatever its scope
intact(tok, t) ==
    /\ tok.sig = "ok"
    /\ t <= tok.iat + Lifetime(tok.scope)

decode_refresh_token(tok, t) ==
    IF validate(tok, "refresh_token", t)
    THEN [ok |-> TRUE, email |-> tok.sub]
    ELSE [ok |-> FALSE, email |-> "none"]

get_email_from_token(tok, t) ==
    IF validate(tok, "email_token", t)
    THEN [ok |-> TRUE, email |-> tok.sub]
    ELSE [ok |-> FALSE, email |-> "none"]

\* the tokens a client can present at time t: any claim set, signed by the
\* service or not
Tokens(t) ==
    [scope : Scopes, sub : Emails, iat : 0..t, sig : {"ok"}]
        \cup [scope : Scopes, sub : Emails, iat : {t}, sig : {"forged"}]

(***************************************************************************)
(* repository/users.py                                                     *)
(***************************************************************************)
\* get_user_by_email filtering on the wrong column
get_user_by_username(email, tbl) ==
    LET rows == {i \in 1..Len(tbl) : tbl[i].username = email}
    IN  IF rows = {} THEN NoUser ELSE tbl[CHOOSE i \in rows : TRUE]

\* get_user_by_email that falls back to the first row when none matches
get_user_by_email_or_first(email, tbl) ==
    LET rows == {i \in 1..Len(tbl) : tbl[i].email = email}
    IN  IF rows = {} THEN tbl[1] ELSE tbl[CHOOSE i \in rows : TRUE]

get_user_by_email(email, tbl) ==
    LET rows == {i \in 1..Len(tbl) : tbl[i].email = email}
    IN  IF rows = {} THEN NoUser ELSE tbl[CHOOSE i \in rows : TRUE]

\* update_token that ignores a None token
update_token_skip_none(user, token, tbl) ==
    IF token = None THEN tbl ELSE [tbl EXCEPT ![user.id].refresh_token = token]

\* update_token that writes the row back with the confirmed flag cleared
update_token_resets_confirmed(user, token, tbl) ==
    [tbl EXCEPT ![user.id].refresh_token = token, ![user.id].confirmed = FALSE]

\* user.refresh_token = token; commit; refresh.  user is the row as the
\* session loaded it: the commit flushes an UPDATE of the row with that id
\* only when the attribute differs from the loaded value
update_token(user, token, tbl) ==
    IF user.refresh_token = token
    THEN tbl
    ELSE [tbl EXCEPT ![user.id].refresh_token = token]

\* user = get_user_by_email(email); user.confirmed = True; commit
repo_confirmed_email(email, tbl) ==
    LET user == get_user_by_email(email, tbl)
    IN  [tbl EXCEPT ![user.id].confirmed = TRUE]

\* body.model_dump(exclude_unset=True, avatar=avatar) passes a keyword that
\* model_dump does not take: the call raises TypeError before the User row is
\* built, added or committed
create_user(body, tbl) ==
    [raised |-> TRUE, users |-> tbl, adds |-> 0, commits |-> 0]

\* user = get_user_by_email(email); user.avatar = url; db.commit() without
\* await; return user.  User maps no avatar column, so the assignment sets a
\* plain attribute of the loaded object, and the coroutine of the commit is
\* never run: no row is written
update_avatar(email, url, tbl) ==
    [user |-> get_user_by_email(email, tbl), users |-> tbl, commits |-> 0]

(***************************************************************************)
(* services/auth.py get_current_user (spec 2): the access token validates  *)
(* and its subject is a user of the users table.                           *)
(***************************************************************************)
get_current_user(cred, tbl, t) ==
    IF cred # None /\ validate(cred, "access_token", t)
    THEN get_user_by_email(cred.sub, tbl)
    ELSE NoUser

(***************************************************************************)
(* repository/contacts.py                                                  *)
(***************************************************************************)
\* select(Contact).offset(offset).limit(limit): no ORDER BY, so which rows
\* a page skips is the database's choice
repo_get_contacts(limit, offset, tbl) ==
    LET n == Cardinality(tbl)
        rest == IF n > offset THEN n - offset ELSE 0
        size == IF rest > limit THEN limit ELSE rest
    IN  {page \in SUBSET tbl : Cardinality(page) = size}

\* select(Contact).filter_by(id=contact_id); scalar_one_or_none
repo_get_contact(contact_id, tbl) ==
    IF \E c \in tbl : c.id = contact_id
    THEN CHOOSE c \in tbl : c.id = contact_id
    ELSE NoContact

\* Contact(**body.model_dump(exclude_unset=True)); add; commit.  The birthday
\* column is Mapped[Date], not Optional, so NOT NULL: the commit of a body
\* without birthday raises IntegrityError and adds nothing
repo_create_contact(body, id, tbl) ==
    IF body.birthday = NoDate
    THEN [raised |-> TRUE, contact |-> NoContact, contacts |-> tbl]
    ELSE LET contact == [id |-> id, first_name |-> body.first_name,
                         last_name |-> body.last_name, email |-> body.email,
                         phone_number |-> body.phone_number,
                         birthday |-> body.birthday]
         IN  [raised |-> FALSE, contact |-> contact,
              contacts |-> tbl \cup {contact}]

\* db.refresh(contact): the row with the primary key of the object is read
\* again, as committed by then; InvalidRequestError when there is none
refresh(contact, tbl) ==
    LET row == repo_get_contact(contact.id, tbl)
    IN  [raised |-> row = NoContact, contact |-> row]

\* setattr for every field of body.model_dump(exclude_unset=True), on the
\* object as the SELECT loaded it; birthday left unset is not in the dump
setattrs(contact, body) ==
    [id |-> contact.id, first_name |-> body.first_name,
     last_name |-> body.last_name, email |-> body.email,
     phone_number |-> body.phone_number,
     birthday |-> IF body.birthday = NoDate THEN contact.birthday
                  ELSE body.birthday]

\* the commit of update_contact.  The flush writes the attributes whose
\* value differs from the value loaded, UPDATE contacts SET ... WHERE id =
\* :id, and nothing when there is none; an UPDATE that matches no row raises
\* StaleDataError.  db.merge(contact) before it finds the object in the
\* session already and reaches no row
commit_update(loaded, contact, tbl) ==
    LET changed == {f \in ContactFields : contact[f] # loaded[f]}
        row == repo_get_contact(loaded.id, tbl)
        new == [f \in DOMAIN row |->
                  IF f \in changed THEN contact[f] ELSE row[f]]
    IN  IF changed = {} THEN [raised |-> FALSE, contacts |-> tbl]
        ELSE IF row = NoContact THEN [raised |-> TRUE, contacts |-> tbl]
        ELSE [raised |-> FALSE, contacts |-> (tbl \ {row}) \cup {new}]

\* the commit of delete_contact: DELETE FROM contacts WHERE id = :id; a
\* DELETE that matches no row is a warning, not an error
commit_delete(loaded, tbl) == {c \in tbl : c.id # loaded.id}

\* A text is the sequence of its characters.  func.lower and str.lower
lower_char(c) ==
    CASE c = "A" -> "a" [] c = "B" -> "b" [] c = "C" -> "c" [] c = "D" -> "d"
      [] c = "E" -> "e" [] c = "S" -> "s" [] c = "T" -> "t" [] OTHER -> c

lower(text) == [i \in 1..Len(text) |-> lower_char(text[i])]

\* text LIKE pattern: in the pattern % stands for any run of characters and
\* _ for any one character, every other character for itself
RECURSIVE like(_, _)
like(text, pattern) ==
    IF pattern = <<>> THEN text = <<>>
    ELSE IF Head(pattern) = "%"
    THEN \/ like(text, Tail(pattern))
         \/ text # <<>> /\ like(Tail(text), pattern)
    ELSE /\ text # <<>>
         /\ Head(pattern) = "_" \/ Head(pattern) = Head(text)
         /\ like(Tail(text), Tail(pattern))

\* column.ilike(pattern): LIKE that ignores case
ilike(text, pattern) == like(lower(text), lower(pattern))

\* select(Contact).filter(or_(lower(email).ilike(f"%{text.lower()}%"),
\* or_(lower(first_name).ilike(...), lower(last_name).ilike(...))))
\* .limit(limit).offset(offset): the search text goes into the pattern as it
\* is, and no ORDER BY says which rows a page skips
repo_search_contacts(search_text, limit, offset, tbl) ==
    LET pattern == <<"%">> \o lower(search_text) \o <<"%">>
        found == {c \in tbl :
                    \/ ilike(lower(c.email), pattern)
                    \/ ilike(lower(c.first_name), pattern)
                    \/ ilike(lower(c.last_name), pattern)}
        rest == IF Cardinality(found) > offset
                THEN Cardinality(found) - offset ELSE 0
        size == IF rest > limit THEN limit ELSE rest
    IN  {page \in SUBSET found : Cardinality(page) = size}

(***************************************************************************)
(* datetime.date: the proleptic Gregorian calendar.  A date is counted in  *)
(* days from the first day of EpochYear, which is day 1.                   *)
(***************************************************************************)
EpochYear == 2024

IsLeap(y) == (y % 4 = 0 /\ y % 100 # 0) \/ y % 400 = 0

DaysInYear(y) == IF IsLeap(y) THEN 366 ELSE 365

DaysInMonth(y, m) ==
    IF m = 2 THEN (IF IsLeap(y) THEN 29 ELSE 28)
    ELSE IF m \in {4, 6, 9, 11} THEN 30 ELSE 31

RECURSIVE DaysBeforeMonth(_, _)
DaysBeforeMonth(y, m) ==
    IF m = 1 THEN 0 ELSE DaysBeforeMonth(y, m - 1) + DaysInMonth(y, m - 1)

RECURSIVE DaysBeforeYear(_)
DaysBeforeYear(y) ==
    IF y = EpochYear THEN 0
    ELSE IF y > EpochYear THEN DaysBeforeYear(y - 1) + DaysInYear(y - 1)
    ELSE DaysBeforeYear(y + 1) - DaysInYear(y)

toordinal(d) ==
    DaysBeforeYear(d.year) + DaysBeforeMonth(d.year, d.month) + d.day

\* the date that is day n counted from the first day of month m of year y
RECURSIVE DateFrom(_, _, _)
DateFrom(n, y, m) ==
    IF n < 1 THEN DateFrom(n + DaysInYear(y - 1), y - 1, 1)
    ELSE IF n > DaysInMonth(y, m)
    THEN IF m = 12 THEN DateFrom(n - DaysInMonth(y, m), y + 1, 1)
         ELSE DateFrom(n - DaysInMonth(y, m), y, m + 1)
    ELSE [year |-> y, month |-> m, day |-> n]

fromordinal(n) == DateFrom(n, EpochYear, 1)

\* date + timedelta(days=days)
date_add(d, days) == fromordinal(toordinal(d) + days)

\* date.today(): the clock counted in days
date_today(t) == fromordinal(t)

\* a < b or a = b for dates
date_le(a, b) ==
    \/ a.year < b.year
    \/ a.year = b.year /\ a.month < b.month
    \/ a.year = b.year /\ a.month = b.month /\ a.day <= b.day

\* .order_by(Contact.birthday).limit(limit).offset(offset): the pages a
\* result can show, rows with equal birthdays in either order
OrderedPages(found, limit, offset) ==
    LET n == Cardinality(found)
        skip == IF n > offset THEN offset ELSE n
        size == IF n - skip > limit THEN limit ELSE n - skip
    IN  {page \in SUBSET found :
            /\ Cardinality(page) = size
            /\ \E skipped \in SUBSET (found \ page) :
                  /\ Cardinality(skipped) = skip
                  /\ \A a \in skipped, b \in found \ skipped :
                        date_le(a.birthday, b.birthday)
                  /\ \A a \in page, b \in found \ (skipped \cup page) :
                        date_le(a.birthday, b.birthday)}

\* get_birthdays that tests the birthday against every day of the window
repo_get_birthdays_calendar(days, limit, offset, tbl, t) ==
    LET today == date_today(t)
        found == {c \in tbl :
                    \E k \in 0..days :
                      LET d == date_add(today, k)
                      IN  c.birthday.month = d.month /\ c.birthday.day = d.day}
    IN  OrderedPages(found, limit, offset)

\* today = date.today(); end_date = today + timedelta(days=days); the four
\* filters on date_part('month', birthday) and date_part('day', birthday)
repo_get_birthdays(days, limit, offset, tbl, t) ==
    LET today == date_today(t)
        end_date == date_add(today, days)
        found == {c \in tbl :
                    /\ c.birthday.month >= today.month
                    /\ c.birthday.month <= end_date.month
                    /\ c.birthday.day >= today.day
                    /\ c.birthday.day <= end_date.day}
    IN  OrderedPages(found, limit, offset)

(***************************************************************************)
(* The state the process starts from: the database already holds two       *)
(* accounts, nobody is logged in, the contacts table is empty.             *)
(***************************************************************************)
Salts == {0, 1}

\* the requests a behaviour serves; get_db opens a database session for
\* each of them, so a request and its session go by the same number
Served == 1..MaxServed

\* the session of a request that has not arrived, and of one that has ended
\* no refresh token used yet: tokens are the refresh tokens that a refresh
\* request was answered 200 for, later the requests that arrived with one
Unused == [tokens |-> {}, later |-> {}]

Idle == [pc |-> "idle"]

Done == [pc |-> "done"]

\* request s arrives: the requests arrive in the order of their numbers
Arrives(s) ==
    /\ reqs[s].pc = "idle"
    /\ IF s = 1 THEN TRUE ELSE reqs[s - 1].pc # "idle"

\* reqs once request s has ended and its session is closed
Ended(s) == [reqs EXCEPT ![s] = Done]

InitUsers ==
    << [id |-> 1, username |-> "ann", email |-> "a@x.ua",
        password |-> get_password_hash("pw1", 0), refresh_token |-> None,
        confirmed |-> FALSE],
       [id |-> 2, username |-> "bob", email |-> "b@x.ua",
        password |-> get_password_hash("pw2", 0), refresh_token |-> None,
        confirmed |-> FALSE] >>

Init ==
    /\ users = InitUsers
    /\ contacts = {}
    /\ nextId = 1
    /\ now = 0
    /\ resp = NoResp
    /\ issued = [e \in Emails |-> None]
    /\ used = Unused
    /\ creator = <<>>
    /\ reqs = [s \in Served |-> Idle]

\* time passes, between two requests or while requests wait for the database
Tick ==
    /\ now < MaxTime
    /\ now' = now + 1
    /\ UNCHANGED <<users, contacts, nextId, resp, issued, used, creator, reqs>>

(***************************************************************************)
(* routes/auth.py.  Every request runs on a database session of its own    *)
(* (get_db) and gives way to the other requests where it awaits the        *)
(* database.  A step of a request is the code from one such await to the   *)
(* next, taken with the effect of the statement awaited; reqs[s] is what   *)
(* the request on session s holds between two steps: the row it loaded and *)
(* the tokens it made.  The step that ends a request records its response  *)
(* in resp and frees the session.                                          *)
(***************************************************************************)
\* exist_user = await get_user_by_email(body.email, db); 409 if there is
\* one; create_user raises before it reaches the database, so the SELECT is
\* the one statement of the request that awaits it
signup(s, username, email, password) ==
    \E salt \in Salts :
      LET exist_user == get_user_by_email(email, users)
          body == [username |-> username, email |-> email,
                   password |-> get_password_hash(password, salt)]
          made == create_user(body, users)
          r == [NoResp EXCEPT !.op = "signup", !.email = email]
      IN  /\ Arrives(s)
          /\ IF exist_user # NoUser
             THEN /\ users' = users
                  /\ resp' = [r EXCEPT !.status = 409,
                                       !.detail = "Email already exists"]
             ELSE /\ users' = made.users
                  /\ resp' = IF made.raised
                             THEN [r EXCEPT !.status = 500,
                                            !.detail = "TypeError",
                                            !.adds = made.adds,
                                            !.commits = made.commits]
                             ELSE [r EXCEPT !.status = 201,
                                            !.detail = "User successfully created",
                                            !.adds = made.adds,
                                            !.commits = made.commits]
          /\ reqs' = Ended(s)
          /\ UNCHANGED <<contacts, nextId, now, issued, creator>>

\* login that makes the tokens without looking at the password
login_get_user_unverified(s, email, password) ==
    LET user == get_user_by_email(email, users)
        access_token == create_access_token(user.email, now)
        refresh_token == create_refresh_token(user.email, now)
        r == [NoResp EXCEPT !.op = "login", !.email = email]
    IN  /\ Arrives(s)
        /\ IF user = NoUser
           THEN /\ resp' = [r EXCEPT !.status = 401, !.detail = "Invalid email"]
                /\ reqs' = Ended(s)
                /\ UNCHANGED issued
           ELSE /\ issued' = [issued EXCEPT ![user.email] = refresh_token]
                /\ reqs' = [reqs EXCEPT ![s] =
                              [pc |-> "commit", op |-> "login",
                               token |-> None, user |-> user,
                               access_token |-> access_token,
                               refresh_token |-> refresh_token]]
                /\ UNCHANGED resp
        /\ UNCHANGED <<users, contacts, nextId, now, used, creator>>

\* user = await get_user_by_email(body.username, db); the two 401 answers;
\* the two tokens are made with the clock as it stands when the SELECT has
\* returned; update_token sets user.refresh_token.  The request then awaits
\* the commit of update_token
login_get_user(s, email, password) ==
    LET user == get_user_by_email(email, users)
        access_token == create_access_token(user.email, now)
        refresh_token == create_refresh_token(user.email, now)
        r == [NoResp EXCEPT !.op = "login", !.email = email]
    IN  /\ Arrives(s)
        /\ IF user = NoUser
           THEN /\ resp' = [r EXCEPT !.status = 401, !.detail = "Invalid email"]
                /\ reqs' = Ended(s)
                /\ UNCHANGED issued
           ELSE IF ~verify_password(password, user.password)
           THEN /\ resp' = [r EXCEPT !.status = 401,
                                     !.detail = "Invalid password"]
                /\ reqs' = Ended(s)
                /\ UNCHANGED issued
           ELSE /\ issued' = [issued EXCEPT ![user.email] = refresh_token]
                /\ reqs' = [reqs EXCEPT ![s] =
                              [pc |-> "commit", op |-> "login",
                               token |-> None, user |-> user,
                               access_token |-> access_token,
                               refresh_token |-> refresh_token]]
                /\ UNCHANGED resp
        /\ UNCHANGED <<users, contacts, nextId, now, used, creator>>

\* await db.commit() of update_token: the row is written.  The request then
\* awaits db.refresh(user)
login_commit(s) ==
    LET q == reqs[s]
    IN  /\ q.pc = "commit"
        /\ q.op = "login"
        /\ users' = update_token(q.user, q.refresh_token, users)
        /\ reqs' = [reqs EXCEPT ![s].pc = "refresh"]
        /\ UNCHANGED <<contacts, nextId, now, resp, issued, used, creator>>

\* await db.refresh(user) of update_token returns: the row is read into an
\* object the route does not look at any more; return the pair
login_refresh(s) ==
    LET q == reqs[s]
    IN  /\ q.pc = "refresh"
        /\ q.op = "login"
        /\ resp' = [NoResp EXCEPT !.op = "login", !.email = q.user.email,
                                  !.status = 201,
                                  !.access_token = q.access_token,
                                  !.refresh_token = q.refresh_token,
                                  !.commits = 1]
        /\ reqs' = Ended(s)
        /\ UNCHANGED <<users, contacts, nextId, now, issued, used, creator>>

\* token = credentials.credentials; email = await decode_refresh_token(
\* token), with the clock as it stands when the request arrives; 401 when
\* the decoder refuses the token.  The request then awaits the SELECT of
\* get_user_by_email
refresh_token_decode(s, token) ==
    LET decoded == decode_refresh_token(token, now)
        r == [NoResp EXCEPT !.op = "refresh", !.email = token.sub,
                            !.scope = token.scope, !.intact = intact(token, now)]
    IN  /\ Arrives(s)
        /\ IF ~decoded.ok
           THEN /\ resp' = [r EXCEPT !.status = 401,
                                     !.detail = "Could not validate credentials"]
                /\ reqs' = Ended(s)
           ELSE /\ reqs' = [reqs EXCEPT ![s] =
                              [pc |-> "get_user", op |-> "refresh",
                               token |-> token, email |-> decoded.email,
                               user |-> NoUser, access_token |-> None,
                               refresh_token |-> None]]
                /\ UNCHANGED resp
        /\ UNCHANGED <<users, contacts, nextId, now, issued, creator>>

\* user = await get_user_by_email(email, db); the comparison with the row
\* as it was loaded; on a match the two tokens are made, with the clock as
\* it stands now; update_token sets user.refresh_token, to None or to the
\* new token.  The request then awaits the commit of update_token
refresh_token_get_user(s) ==
    LET q == reqs[s]
        user == get_user_by_email(q.email, users)
        access_token == create_access_token(q.email, now)
        new_token == create_refresh_token(q.email, now)
        r == [NoResp EXCEPT !.op = "refresh", !.email = q.token.sub,
                            !.scope = q.token.scope, !.intact = TRUE]
    IN  /\ q.pc = "get_user"
        /\ q.op = "refresh"
        /\ IF user = NoUser
           \* user.refresh_token on None raises AttributeError
           THEN /\ resp' = [r EXCEPT !.status = 500,
                                     !.detail = "AttributeError"]
                /\ reqs' = Ended(s)
                /\ UNCHANGED issued
           ELSE IF user.refresh_token # q.token
           THEN /\ reqs' = [reqs EXCEPT ![s].pc = "commit", ![s].user = user]
                /\ UNCHANGED <<issued, resp>>
           ELSE /\ issued' = [issued EXCEPT ![q.email] = new_token]
                /\ reqs' = [reqs EXCEPT ![s].pc = "commit", ![s].user = user,
                                        ![s].access_token = access_token,
                                        ![s].refresh_token = new_token]
                /\ UNCHANGED resp
        /\ UNCHANGED <<users, contacts, nextId, now, creator>>

\* await db.commit() of update_token(user, None, db) or of
\* update_token(user, refresh_token, db): the row is written.  The request
\* then awaits db.refresh(user)
refresh_token_commit(s) ==
    LET q == reqs[s]
    IN  /\ q.pc = "commit"
        /\ q.op = "refresh"
        /\ users' = update_token(q.user, q.refresh_token, users)
        /\ reqs' = [reqs EXCEPT ![s].pc = "refresh"]
        /\ UNCHANGED <<contacts, nextId, now, resp, issued, creator>>

\* await db.refresh(user) of update_token returns; raise HTTPException(401)
\* after update_token(user, None, db), return the pair after the other
refresh_token_refresh(s) ==
    LET q == reqs[s]
        r == [NoResp EXCEPT !.op = "refresh", !.email = q.token.sub,
                            !.scope = q.token.scope, !.intact = TRUE,
                            !.commits = 1]
    IN  /\ q.pc = "refresh"
        /\ q.op = "refresh"
        /\ resp' = IF q.refresh_token = None
                   THEN [r EXCEPT !.status = 401,
                                  !.detail = "Invalid refresh token"]
                   ELSE [r EXCEPT !.status = 200,
                                  !.access_token = q.access_token,
                                  !.refresh_token = q.refresh_token]
        /\ reqs' = Ended(s)
        /\ UNCHANGED <<users, contacts, nextId, now, issued, creator>>

\* email = await get_email_from_token(token), with the clock as it stands
\* when the request arrives; 401 when the token is refused.  The request
\* then awaits the SELECT of get_user_by_email
confirmed_email_decode(s, token) ==
    LET decoded == get_email_from_token(token, now)
        r == [NoResp EXCEPT !.op = "confirm", !.email = token.sub,
                            !.scope = token.scope, !.intact = intact(token, now)]
    IN  /\ Arrives(s)
        /\ IF ~decoded.ok
           THEN /\ resp' = [r EXCEPT !.status = 401,
                                     !.detail = "Invalid token"]
                /\ reqs' = Ended(s)
           ELSE /\ reqs' = [reqs EXCEPT ![s] =
                              [pc |-> "get_user", op |-> "confirm",
                               token |-> token, email |-> decoded.email,
                               user |-> NoUser]]
                /\ UNCHANGED resp
        /\ UNCHANGED <<users, contacts, nextId, now, issued, creator>>

\* confirmed_email without the check that the user is confirmed already
confirmed_email_no_recheck(s) ==
    LET q == reqs[s]
        user == get_user_by_email(q.email, users)
        r == [NoResp EXCEPT !.op = "confirm", !.email = q.token.sub,
                            !.scope = q.token.scope, !.intact = TRUE]
    IN  /\ q.pc = "get_user"
        /\ q.op = "confirm"
        /\ IF user = NoUser
           THEN /\ resp' = [r EXCEPT !.status = 400,
                                     !.detail = "Verification error"]
                /\ reqs' = Ended(s)
           ELSE /\ reqs' = [reqs EXCEPT ![s].pc = "select", ![s].user = user]
                /\ UNCHANGED resp
        /\ UNCHANGED <<users, contacts, nextId, now, issued, creator>>

\* user = await get_user_by_email(email, db); 400 without a user; "already
\* confirmed" when the row as it was loaded is confirmed.  The request then
\* awaits the SELECT of repository confirmed_email
confirmed_email_get_user(s) ==
    LET q == reqs[s]
        user == get_user_by_email(q.email, users)
        r == [NoResp EXCEPT !.op = "confirm", !.email = q.token.sub,
                            !.scope = q.token.scope, !.intact = TRUE]
    IN  /\ q.pc = "get_user"
        /\ q.op = "confirm"
        /\ IF user = NoUser
           THEN /\ resp' = [r EXCEPT !.status = 400,
                                     !.detail = "Verification error"]
                /\ reqs' = Ended(s)
           ELSE IF user.confirmed
           THEN /\ resp' = [r EXCEPT !.status = 200,
                                     !.detail = "Your email is already confirmed"]
                /\ reqs' = Ended(s)
           ELSE /\ reqs' = [reqs EXCEPT ![s].pc = "select", ![s].user = user]
                /\ UNCHANGED resp
        /\ UNCHANGED <<users, contacts, nextId, now, issued, creator>>

\* user = await get_user_by_email(email, db) of repository confirmed_email:
\* the SELECT finds the object the session holds already and leaves its
\* attributes as they were loaded; user.confirmed = True.  The request then
\* awaits the commit
confirmed_email_select(s) ==
    LET q == reqs[s]
    IN  /\ q.pc = "select"
        /\ q.op = "confirm"
        /\ reqs' = [reqs EXCEPT ![s].pc = "commit"]
        /\ UNCHANGED <<users, contacts, nextId, now, resp, issued, creator>>

\* await db.commit() of repository confirmed_email: confirmed = True is
\* written to the row; return "Email confirmed"
confirmed_email_commit(s) ==
    LET q == reqs[s]
    IN  /\ q.pc = "commit"
        /\ q.op = "confirm"
        /\ users' = repo_confirmed_email(q.user.email, users)
        /\ resp' = [NoResp EXCEPT !.op = "confirm", !.email = q.token.sub,
                                  !.scope = q.token.scope, !.intact = TRUE,
                                  !.status = 200,
                                  !.detail = "Email confirmed",
                                  !.commits = 1]
        /\ reqs' = Ended(s)
        /\ UNCHANGED <<contacts, nextId, now, issued, creator>>

\* user = await get_user_by_email(body.email, db): the one statement of the
\* request that awaits the database
request_email(s, email) ==
    LET user == get_user_by_email(email, users)
        r == [NoResp EXCEPT !.op = "request_email", !.email = email]
    IN  /\ Arrives(s)
        /\ resp' = IF user = NoUser
                   THEN [r EXCEPT !.status = 401, !.detail = "Invalid email"]
                   ELSE IF user.confirmed
                   THEN [r EXCEPT !.status = 200,
                                  !.detail = "Your email is already confirmed"]
                   \* bt.add_task(send_email, ...): the mail is sent after the
                   \* response, no row is written
                   ELSE [r EXCEPT !.status = 200,
                                  !.detail = "Check your email for confirmation."]
        /\ reqs' = Ended(s)
        /\ UNCHANGED <<users, contacts, nextId, now, issued, creator>>

(***************************************************************************)
(* routes/users.py                                                         *)
(***************************************************************************)
Urls == {"https://res/NotesApp/v1"}

\* current_user = Depends(auth_service.get_current_user), with the clock as
\* it stands when the request arrives; 401 when the access token is refused
\* or its subject is no user.  The image is uploaded and its url built; the
\* request then awaits the SELECT of repository update_avatar
update_avatar_user(s, cred, url) ==
    LET current_user == get_current_user(cred, users, now)
        r == [NoResp EXCEPT !.op = "update_avatar"]
    IN  /\ Arrives(s)
        /\ IF current_user = NoUser
           THEN /\ resp' = [r EXCEPT !.status = 401,
                                     !.detail = "Could not validate credentials",
                                     !.scope = IF cred = None THEN "none"
                                               ELSE cred.scope,
                                     !.intact = IF cred = None THEN FALSE
                                                ELSE intact(cred, now)]
                /\ reqs' = Ended(s)
           ELSE /\ reqs' = [reqs EXCEPT ![s] =
                              [pc |-> "update_avatar", op |-> "update_avatar",
                               token |-> cred, email |-> current_user.email,
                               url |-> url]]
                /\ UNCHANGED resp
        /\ UNCHANGED <<users, contacts, nextId, now, issued, creator>>

\* user = await get_user_by_email(email, db) of repository update_avatar
\* returns; user.avatar = url; db.commit() without await; return user.  The
\* route returns the user
update_avatar_get_user(s) ==
    LET q == reqs[s]
        done == update_avatar(q.email, q.url, users)
        r == [NoResp EXCEPT !.op = "update_avatar", !.email = q.email,
                            !.scope = q.token.scope, !.intact = TRUE]
    IN  /\ q.pc = "update_avatar"
        /\ IF done.user = NoUser
           \* user.avatar on None raises AttributeError
           THEN /\ resp' = [r EXCEPT !.status = 500,
                                     !.detail = "AttributeError"]
                /\ users' = users
           ELSE /\ resp' = [r EXCEPT !.status = 200,
                                     !.commits = done.commits]
                /\ users' = done.users
        /\ reqs' = Ended(s)
        /\ UNCHANGED <<contacts, nextId, now, issued, creator>>

(***************************************************************************)
(* Spec: signup, login and refresh requests, their steps interleaved in    *)
(* any order, while the clock runs.                                        *)
(***************************************************************************)
Signup ==
    \E s \in Served, u \in Usernames, e \in Emails, p \in Passwords :
        signup(s, u, e, p)

LoginGetUser ==
    \E s \in Served, e \in Emails, p \in Passwords : login_get_user(s, e, p)

LoginCommit == \E s \in Served : login_commit(s)

LoginRefresh == \E s \in Served : login_refresh(s)

RefreshTokenDecode ==
    \E s \in Served, t \in Tokens(now) : refresh_token_decode(s, t)

RefreshTokenGetUser == \E s \in Served : refresh_token_get_user(s)

RefreshTokenCommit == \E s \in Served : refresh_token_commit(s)

RefreshTokenRefresh == \E s \in Served : refresh_token_refresh(s)

ConfirmedEmailDecode ==
    \E s \in Served, t \in Tokens(now) : confirmed_email_decode(s, t)

ConfirmedEmailGetUser == \E s \in Served : confirmed_email_get_user(s)

ConfirmedEmailSelect == \E s \in Served : confirmed_email_select(s)

ConfirmedEmailCommit == \E s \in Served : confirmed_email_commit(s)

Next ==
    \/ Tick
    \/ Signup /\ UNCHANGED used
    \/ LoginGetUser
    \/ LoginCommit
    \/ LoginRefresh
    \/ RefreshTokenDecode /\ UNCHANGED used
    \/ RefreshTokenGetUser /\ UNCHANGED used
    \/ RefreshTokenCommit /\ UNCHANGED used
    \/ RefreshTokenRefresh /\ UNCHANGED used

Spec == Init /\ [][Next]_vars

(***************************************************************************)
(* SpecReuse: login and refresh as in Spec, with the history of the        *)
(* refresh tokens that a refresh request was answered 200 for, and of the  *)
(* requests that arrived with such a token, from the state after a@x.ua    *)
(* and b@x.ua have logged in at tick 0.                                    *)
(***************************************************************************)
InitReuse ==
    /\ users = [i \in 1..Len(InitUsers) |->
                  [InitUsers[i] EXCEPT !.refresh_token =
                      create_refresh_token(InitUsers[i].email, 0)]]
    /\ issued = [e \in Emails |->
                  IF \E i \in 1..Len(InitUsers) : InitUsers[i].email = e
                  THEN create_refresh_token(e, 0) ELSE None]
    /\ now = 0
    /\ contacts = {}
    /\ nextId = 1
    /\ resp = NoResp
    /\ used = Unused
    /\ creator = <<>>
    /\ reqs = [s \in Served |-> Idle]

\* a refresh request arrives; it is a later one when the token it presents
\* has been answered 200 before
RefreshTokenPresented ==
    \E s \in Served, t \in Tokens(now) :
        /\ refresh_token_decode(s, t)
        /\ used' = [used EXCEPT !.later = IF t \in used.tokens
                                          THEN @ \cup {s} ELSE @]

\* a refresh request is answered; with 200 the token it presented has been
\* used
RefreshTokenRecorded ==
    \E s \in Served :
        /\ refresh_token_refresh(s)
        /\ used' = [used EXCEPT !.tokens = IF resp'.status = 200
                                           THEN @ \cup {reqs[s].token}
                                           ELSE @]

NextReuse ==
    \/ Tick
    \/ LoginGetUser
    \/ LoginCommit
    \/ LoginRefresh
    \/ RefreshTokenPresented
    \/ RefreshTokenGetUser /\ UNCHANGED used
    \/ RefreshTokenCommit /\ UNCHANGED used
    \/ RefreshTokenRecorded

SpecReuse == InitReuse /\ [][NextReuse]_vars

(***************************************************************************)
(* SpecAccount: every request of routes/auth.py and routes/users.py that   *)
(* can write a user row.                                                   *)
(***************************************************************************)
RequestEmail == \E s \in Served, e \in Emails : request_email(s, e)

UpdateAvatarUser ==
    \E s \in Served, cred \in Tokens(now) \cup {None}, url \in Urls :
        update_avatar_user(s, cred, url)

UpdateAvatarGetUser == \E s \in Served : update_avatar_get_user(s)

NextAccount ==
    \/ Tick
    \/ Signup /\ UNCHANGED used
    \/ LoginGetUser
    \/ LoginCommit
    \/ LoginRefresh
    \/ RefreshTokenDecode /\ UNCHANGED used
    \/ RefreshTokenGetUser /\ UNCHANGED used
    \/ RefreshTokenCommit /\ UNCHANGED used
    \/ RefreshTokenRefresh /\ UNCHANGED used
    \/ ConfirmedEmailDecode /\ UNCHANGED used
    \/ ConfirmedEmailGetUser /\ UNCHANGED used
    \/ ConfirmedEmailSelect /\ UNCHANGED used
    \/ ConfirmedEmailCommit /\ UNCHANGED used
    \/ RequestEmail /\ UNCHANGED used
    \/ UpdateAvatarUser /\ UNCHANGED used
    \/ UpdateAvatarGetUser /\ UNCHANGED used

SpecAccount == Init /\ [][NextAccount]_vars

(***************************************************************************)
(* SpecRace: refresh requests that run concurrently, each on its own       *)
(* database session (get_db opens one per request).  A request gives way   *)
(* to the others where it awaits the database: at the SELECT of            *)
(* get_user_by_email and at the commit and the refresh of update_token.    *)
(***************************************************************************)
Sessions == {1, 2}

IdleReq == [pc |-> "idle", token |-> None, user |-> NoUser, status |-> 0,
            refresh_token |-> None, overlap |-> FALSE]

InFlight(s) ==
    reqs[s].pc \in {"get_user", "invalidate", "rotate", "store", "refresh"}

\* the state after a@x.ua and b@x.ua logged in at tick 0 and one tick passed
InitRace ==
    /\ users = [i \in 1..Len(InitUsers) |->
                  [InitUsers[i] EXCEPT !.refresh_token =
                      create_refresh_token(InitUsers[i].email, 0)]]
    /\ issued = [e \in Emails |->
                  IF \E i \in 1..Len(InitUsers) : InitUsers[i].email = e
                  THEN create_refresh_token(e, 0) ELSE None]
    /\ now = 1
    /\ contacts = {}
    /\ nextId = 1
    /\ resp = NoResp
    /\ used = Unused
    /\ creator = <<>>
    /\ reqs = [s \in Sessions |-> IdleReq]

\* token = credentials.credentials; email = await decode_refresh_token(token)
rt_decode(s, token) ==
    LET decoded == decode_refresh_token(token, now)
        others == {o \in Sessions \ {s} : InFlight(o)}
    IN  /\ reqs[s].pc = "idle"
        /\ reqs' = [o \in Sessions |->
                      IF o = s
                      THEN [reqs[s] EXCEPT
                              !.token = token,
                              !.overlap = (decoded.ok /\ others # {}),
                              !.pc = IF decoded.ok THEN "get_user" ELSE "done",
                              !.status = IF decoded.ok THEN 0 ELSE 401]
                      ELSE IF decoded.ok /\ o \in others
                      THEN [reqs[o] EXCEPT !.overlap = TRUE]
                      ELSE reqs[o]]
        /\ UNCHANGED <<users, contacts, nextId, now, resp, issued, used, creator>>

\* user = await get_user_by_email(email, db); if user.refresh_token != token
rt_get_user(s) ==
    LET user == get_user_by_email(reqs[s].token.sub, users)
    IN  /\ reqs[s].pc = "get_user"
        /\ reqs' = [reqs EXCEPT
                      ![s].user = user,
                      ![s].pc = IF user = NoUser THEN "done"
                                ELSE IF user.refresh_token # reqs[s].token
                                THEN "invalidate" ELSE "rotate",
                      ![s].status = IF user = NoUser THEN 500 ELSE 0]
        /\ UNCHANGED <<users, contacts, nextId, now, resp, issued, used, creator>>

\* await db.commit() of update_token(user, None, db): the row is written.
\* The request then awaits db.refresh(user)
rt_invalidate(s) ==
    /\ reqs[s].pc = "invalidate"
    /\ users' = update_token(reqs[s].user, None, users)
    /\ reqs' = [reqs EXCEPT ![s].pc = "refresh"]
    /\ UNCHANGED <<contacts, nextId, now, resp, issued, used, creator>>

\* access_token = await create_access_token(...); refresh_token = await
\* create_refresh_token(...)
rt_create_tokens(s) ==
    LET email == reqs[s].token.sub
        new_token == create_refresh_token(email, now)
    IN  /\ reqs[s].pc = "rotate"
        /\ issued' = [issued EXCEPT ![email] = new_token]
        /\ reqs' = [reqs EXCEPT ![s].pc = "store",
                                ![s].refresh_token = new_token]
        /\ UNCHANGED <<users, contacts, nextId, now, resp, used, creator>>

\* await db.commit() of update_token(user, refresh_token, db): the row is
\* written.  The request then awaits db.refresh(user)
rt_store(s) ==
    /\ reqs[s].pc = "store"
    /\ users' = update_token(reqs[s].user, reqs[s].refresh_token, users)
    /\ reqs' = [reqs EXCEPT ![s].pc = "refresh"]
    /\ UNCHANGED <<contacts, nextId, now, resp, issued, used, creator>>

\* await db.refresh(user) of update_token returns; raise HTTPException(401)
\* after update_token(user, None, db), return the pair after the other
rt_refresh(s) ==
    /\ reqs[s].pc = "refresh"
    /\ reqs' = [reqs EXCEPT ![s].pc = "done",
                            ![s].status = IF reqs[s].refresh_token = None
                                          THEN 401 ELSE 200]
    /\ UNCHANGED <<users, contacts, nextId, now, resp, issued, used, creator>>

\* time passes while requests are in flight
TickRace ==
    /\ now < MaxTime
    /\ \E s \in Sessions : InFlight(s)
    /\ now' = now + 1
    /\ UNCHANGED <<users, contacts, nextId, resp, issued, used, creator, reqs>>

NextRace ==
    \/ \E s \in Sessions, t \in Tokens(now) : rt_decode(s, t)
    \/ \E s \in Sessions : rt_get_user(s)
    \/ \E s \in Sessions : rt_invalidate(s)
    \/ \E s \in Sessions : rt_create_tokens(s)
    \/ \E s \in Sessions : rt_store(s)
    \/ \E s \in Sessions : rt_refresh(s)
    \/ TickRace

SpecRace == InitRace /\ [][NextRace]_vars

(***************************************************************************)
(* routes/contacts.py.  cred is the Authorization header of the request    *)
(* (None when there is none): no route declares a dependency that reads    *)
(* it.  As in routes/auth.py a step of a request is the code from one      *)
(* await of the database to the next; the transaction of a request reads   *)
(* what the other requests have committed by then (READ COMMITTED).        *)
(***************************************************************************)
Credentials == Tokens(now) \cup {None}

\* who sends the request: the user its access token names, or nobody
Caller(cred) ==
    LET user == get_current_user(cred, users, now)
    IN  IF user = NoUser THEN "anonymous" ELSE user.email

get_contacts(s, cred, limit, offset) ==
    /\ Arrives(s)
    /\ \E page \in repo_get_contacts(limit, offset, contacts) :
          resp' = [NoResp EXCEPT !.op = "get_contacts", !.status = 200,
                                 !.items = page]
    /\ reqs' = Ended(s)
    /\ UNCHANGED <<users, contacts, nextId, now, issued, used, creator>>

get_contact(s, cred, contact_id) ==
    LET contact == repo_get_contact(contact_id, contacts)
        r == [NoResp EXCEPT !.op = "get_contact"]
    IN  /\ Arrives(s)
        /\ resp' = IF contact = NoContact
                   THEN [r EXCEPT !.status = 404, !.detail = "NOT FOUND"]
                   ELSE [r EXCEPT !.status = 200, !.items = {contact}]
        /\ reqs' = Ended(s)
        /\ UNCHANGED <<users, contacts, nextId, now, issued, used, creator>>

\* contact = Contact(...); db.add(contact); await db.commit().  The request
\* then awaits db.refresh(contact)
create_contact_commit(s, cred, body) ==
    LET made == repo_create_contact(body, nextId, contacts)
        r == [NoResp EXCEPT !.op = "create_contact"]
    IN  /\ Arrives(s)
        /\ contacts' = made.contacts
        \* the sequence behind the autoincrement key does not roll back
        /\ nextId' = nextId + 1
        /\ IF made.raised
           THEN /\ resp' = [r EXCEPT !.status = 500,
                                     !.detail = "IntegrityError",
                                     !.adds = 1, !.commits = 1]
                /\ reqs' = Ended(s)
                /\ UNCHANGED creator
           ELSE /\ creator' = (nextId :> Caller(cred)) @@ creator
                /\ reqs' = [reqs EXCEPT ![s] =
                              [pc |-> "refresh", op |-> "create_contact",
                               caller |-> Caller(cred),
                               contact |-> made.contact]]
                /\ UNCHANGED resp
        /\ UNCHANGED <<users, now, issued, used>>

\* await db.refresh(contact); return contact
create_contact_refresh(s) ==
    LET q == reqs[s]
        read == refresh(q.contact, contacts)
        r == [NoResp EXCEPT !.op = "create_contact", !.adds = 1,
                            !.commits = 1]
    IN  /\ q.pc = "refresh"
        /\ q.op = "create_contact"
        /\ resp' = IF read.raised
                   THEN [r EXCEPT !.status = 500,
                                  !.detail = "InvalidRequestError"]
                   ELSE [r EXCEPT !.status = 201, !.items = {read.contact}]
        /\ reqs' = Ended(s)
        /\ UNCHANGED <<users, contacts, nextId, now, issued, used, creator>>

\* contact = (await db.execute(stmt)).scalar_one_or_none(); 404 without a
\* row; the setattr loop.  The request then awaits the commit
update_contact_execute(s, cred, body, contact_id) ==
    LET contact == repo_get_contact(contact_id, contacts)
        r == [NoResp EXCEPT !.op = "update_contact"]
    IN  /\ Arrives(s)
        /\ IF contact = NoContact
           THEN /\ resp' = [r EXCEPT !.status = 404, !.detail = "NOT FOUND"]
                /\ reqs' = Ended(s)
           ELSE /\ reqs' = [reqs EXCEPT ![s] =
                              [pc |-> "commit", op |-> "update_contact",
                               caller |-> Caller(cred), body |-> body,
                               loaded |-> contact,
                               contact |-> setattrs(contact, body)]]
                /\ UNCHANGED resp
        /\ UNCHANGED <<users, contacts, nextId, now, issued, used, creator>>

\* await db.merge(contact); await db.commit().  The request then awaits
\* db.refresh(contact)
update_contact_commit(s) ==
    LET q == reqs[s]
        done == commit_update(q.loaded, q.contact, contacts)
    IN  /\ q.pc = "commit"
        /\ q.op = "update_contact"
        /\ contacts' = done.contacts
        /\ IF done.raised
           THEN /\ resp' = [NoResp EXCEPT !.op = "update_contact",
                                          !.status = 500,
                                          !.detail = "StaleDataError",
                                          !.commits = 1]
                /\ reqs' = Ended(s)
           ELSE /\ reqs' = [reqs EXCEPT ![s].pc = "refresh"]
                /\ UNCHANGED resp
        /\ UNCHANGED <<users, nextId, now, issued, used, creator>>

\* await db.refresh(contact); return contact
update_contact_refresh(s) ==
    LET q == reqs[s]
        read == refresh(q.contact, contacts)
        r == [NoResp EXCEPT !.op = "update_contact", !.commits = 1]
    IN  /\ q.pc = "refresh"
        /\ q.op = "update_contact"
        /\ resp' = IF read.raised
                   THEN [r EXCEPT !.status = 500,
                                  !.detail = "InvalidRequestError"]
                   ELSE [r EXCEPT !.status = 200, !.items = {read.contact}]
        /\ reqs' = Ended(s)
        /\ UNCHANGED <<users, contacts, nextId, now, issued, used, creator>>

\* contact = (await db.execute(stmt)).scalar_one_or_none(); without a row
\* the route returns None, answered 204 like every other return.  With one
\* the request awaits db.delete(contact), which reaches no row, and then the
\* commit
delete_contact_execute(s, cred, contact_id) ==
    LET contact == repo_get_contact(contact_id, contacts)
    IN  /\ Arrives(s)
        /\ IF contact = NoContact
           THEN /\ resp' = [NoResp EXCEPT !.op = "delete_contact",
                                          !.status = 204]
                /\ reqs' = Ended(s)
           ELSE /\ reqs' = [reqs EXCEPT ![s] =
                              [pc |-> "commit", op |-> "delete_contact",
                               caller |-> Caller(cred), loaded |-> contact]]
                /\ UNCHANGED resp
        /\ UNCHANGED <<users, contacts, nextId, now, issued, used, creator>>

\* await db.delete(contact); await db.commit(); return contact
delete_contact_commit(s) ==
    LET q == reqs[s]
    IN  /\ q.pc = "commit"
        /\ q.op = "delete_contact"
        /\ contacts' = commit_delete(q.loaded, contacts)
        /\ resp' = [NoResp EXCEPT !.op = "delete_contact", !.status = 204,
                                  !.items = {q.loaded}, !.commits = 1]
        /\ reqs' = Ended(s)
        /\ UNCHANGED <<users, nextId, now, issued, used, creator>>

\* search_contacts without the test of the length of the search text
search_contacts_no_min_length(search_text, limit, offset) ==
    LET r == [NoResp EXCEPT !.op = "search_contacts"]
    IN  /\ \E page \in repo_search_contacts(search_text, limit, offset,
                                             contacts) :
              resp' = IF page = {}
                      THEN [r EXCEPT !.status = 404, !.detail = "NOT FOUND",
                                     !.queries = 1]
                      ELSE [r EXCEPT !.status = 200, !.items = page,
                                     !.queries = 1]
        /\ UNCHANGED <<users, contacts, nextId, now, issued, used, creator, reqs>>

search_contacts(search_text, limit, offset) ==
    LET r == [NoResp EXCEPT !.op = "search_contacts"]
    IN  /\ IF Len(search_text) < 3
           THEN resp' = [r EXCEPT
                           !.status = 400,
                           !.detail = "Search text must be at least 3 characters long"]
           ELSE \E page \in repo_search_contacts(search_text, limit, offset,
                                                  contacts) :
                  resp' = IF page = {}
                          THEN [r EXCEPT !.status = 404, !.detail = "NOT FOUND",
                                         !.queries = 1]
                          ELSE [r EXCEPT !.status = 200, !.items = page,
                                         !.queries = 1]
        /\ UNCHANGED <<users, contacts, nextId, now, issued, used, creator, reqs>>

\* PUT /{contact_id}: the body of the request is validated against
\* ContactUpdateSchema before update_contact is called; a body that fails
\* is answered 422
update_contact_request(s, payload, contact_id) ==
    LET parsed == ContactUpdateSchema(payload)
    IN  IF parsed.ok
        THEN update_contact_execute(s, None, parsed.body, contact_id)
        ELSE /\ Arrives(s)
             /\ resp' = [NoResp EXCEPT !.op = "update_contact",
                                       !.status = 422,
                                       !.detail = "Field required"]
             /\ reqs' = Ended(s)
             /\ UNCHANGED <<users, contacts, nextId, now, issued, used,
                            creator>>

\* 400 unless days > 0; today = date.today(), end_date and the statement
\* are made with the clock as it stands when the request arrives.  The
\* request then awaits db.execute(stmt)
get_birthdays(s, days, limit, offset) ==
    LET r == [NoResp EXCEPT !.op = "get_birthdays"]
    IN  /\ Arrives(s)
        /\ IF days <= 0
           THEN /\ resp' = [r EXCEPT !.status = 400,
                                     !.detail = "Days must be positive"]
                /\ reqs' = [reqs EXCEPT ![s] =
                              [pc |-> "done", op |-> "get_birthdays",
                               days |-> days, limit |-> limit,
                               offset |-> offset, today |-> now]]
           ELSE /\ reqs' = [reqs EXCEPT ![s] =
                              [pc |-> "execute", op |-> "get_birthdays",
                               days |-> days, limit |-> limit,
                               offset |-> offset, today |-> now]]
                /\ UNCHANGED resp
        /\ UNCHANGED <<users, contacts, nextId, now, issued, used, creator>>

\* contacts = await db.execute(stmt): the table is read as it stands now,
\* with the dates the statement was made with; 404 when no row is found
get_birthdays_execute(s) ==
    LET q == reqs[s]
        r == [NoResp EXCEPT !.op = "get_birthdays", !.queries = 1]
    IN  /\ q.pc = "execute"
        /\ q.op = "get_birthdays"
        /\ \E page \in repo_get_birthdays(q.days, q.limit, q.offset, contacts,
                                          q.today) :
              resp' = IF page = {}
                      THEN [r EXCEPT !.status = 404, !.detail = "NOT FOUND"]
                      ELSE [r EXCEPT !.status = 200, !.items = page]
        /\ reqs' = [reqs EXCEPT ![s].pc = "done"]
        /\ UNCHANGED <<users, contacts, nextId, now, issued, used, creator>>

(***************************************************************************)
(* SpecContacts: the requests on one contact and on the list, their steps  *)
(* interleaved in any order, from the state after a@x.ua has created a     *)
(* contact.                                                                *)
(***************************************************************************)
ContactIds == 1..(MaxContacts + 1)

InitContacts ==
    /\ users = InitUsers
    /\ contacts = { [id |-> 1, first_name |-> "Test", last_name |-> "Family",
                     email |-> "t@ua.ua", phone_number |-> "0501234567",
                     birthday |-> [year |-> 1990, month |-> 6, day |-> 12]] }
    /\ nextId = 2
    /\ now = 0
    /\ resp = NoResp
    /\ issued = [e \in Emails |-> None]
    /\ used = Unused
    /\ creator = (1 :> "a@x.ua")
    /\ reqs = [s \in Served |-> Idle]

GetContacts ==
    \E s \in Served, cred \in Credentials, offset \in 0..1 :
        get_contacts(s, cred, LimitMin, offset)

GetContact ==
    \E s \in Served, cred \in Credentials, id \in ContactIds :
        get_contact(s, cred, id)

CreateContactCommit ==
    \E s \in Served, cred \in Credentials, body \in ContactBodies :
        /\ nextId <= MaxContacts
        /\ create_contact_commit(s, cred, body)

CreateContactRefresh == \E s \in Served : create_contact_refresh(s)

UpdateContactExecute ==
    \E s \in Served, cred \in Credentials, body \in ContactBodies,
       id \in ContactIds :
        update_contact_execute(s, cred, body, id)

UpdateContactCommit == \E s \in Served : update_contact_commit(s)

UpdateContactRefresh == \E s \in Served : update_contact_refresh(s)

DeleteContactExecute ==
    \E s \in Served, cred \in Credentials, id \in ContactIds :
        delete_contact_execute(s, cred, id)

DeleteContactCommit == \E s \in Served : delete_contact_commit(s)

NextContacts ==
    \/ GetContacts
    \/ GetContact
    \/ CreateContactCommit
    \/ CreateContactRefresh
    \/ UpdateContactExecute
    \/ UpdateContactCommit
    \/ UpdateContactRefresh
    \/ DeleteContactExecute
    \/ DeleteContactCommit

SpecContacts == InitContacts /\ [][NextContacts]_vars

(***************************************************************************)
(* SpecSearch: a search request, reqs, over a contacts table that holds any *)
(* of the rows of SearchRows; every text field is the sequence of its      *)
(* characters.                                                             *)
(***************************************************************************)
SearchRows ==
    { [id |-> 1, first_name |-> <<"T", "e", "s", "t">>, last_name |-> <<"A">>,
       email |-> <<"x", "@", "x">>, phone_number |-> "0501234567",
       birthday |-> [year |-> 1990, month |-> 6, day |-> 12]],
      [id |-> 2, first_name |-> <<"B">>, last_name |-> <<"T", "e", "s", "t">>,
       email |-> <<"y", "@", "y">>, phone_number |-> "0501234567",
       birthday |-> [year |-> 1990, month |-> 6, day |-> 12]],
      [id |-> 3, first_name |-> <<"C">>, last_name |-> <<"D">>,
       email |-> <<"z", "@", "z">>, phone_number |-> "0501234567",
       birthday |-> [year |-> 1990, month |-> 6, day |-> 12]],
      [id |-> 4, first_name |-> <<"E">>, last_name |-> <<"D">>,
       email |-> <<"t", "e", "s", "@", "z">>, phone_number |-> "0501234567",
       birthday |-> [year |-> 1990, month |-> 6, day |-> 12]] }

\* the characters of a search text: letters of both cases and the two
\* characters LIKE reads as wildcards
TermChars == {"t", "e", "s", "T", "_", "%"}

Terms == UNION {[1..n -> TermChars] : n \in 2..MaxTerm}

InitSearch ==
    /\ users = InitUsers
    /\ contacts \in SUBSET SearchRows
    /\ nextId = 5
    /\ now = 0
    /\ resp = NoResp
    /\ issued = [e \in Emails |-> None]
    /\ used = Unused
    /\ creator = <<>>
    /\ reqs \in [search_text : Terms]

SearchContacts ==
    \E offset \in 0..1 : search_contacts(reqs.search_text, LimitMin, offset)

NextSearch == SearchContacts

SpecSearch == InitSearch /\ [][NextSearch]_vars

(***************************************************************************)
(* SpecBirthdays: birthdays requests that arrive on any day of EpochYear   *)
(* over a table that holds contacts born the day before, the day after and *)
(* two days after that day, and one born on the first of July, up to       *)
(* MaxContacts of them.  While a request awaits its SELECT, midnight may   *)
(* pass and other requests may create contacts.                            *)
(***************************************************************************)
BirthYear == 2000

\* a contact whose birthday is the month and day of date d
Born(id, d) ==
    [id |-> id, first_name |-> "Test", last_name |-> "Family",
     email |-> "t@ua.ua", phone_number |-> "0501234567",
     birthday |-> [year |-> BirthYear, month |-> d.month, day |-> d.day]]

BirthdayRows(t) ==
    { Born(1, date_add(date_today(t), -1)),
      Born(2, date_add(date_today(t), 1)),
      Born(3, date_add(date_today(t), 2)),
      Born(4, [year |-> BirthYear, month |-> 7, day |-> 1]) }

\* the bodies of the create requests: a contact born on the month and day
\* of the clock's day
BirthdayBodies(t) ==
    { [first_name |-> "Test", last_name |-> "Family", email |-> "t@ua.ua",
       phone_number |-> "0501234567",
       birthday |-> [year |-> BirthYear, month |-> date_today(t).month,
                     day |-> date_today(t).day]] }

InitBirthdays ==
    /\ users = InitUsers
    /\ now \in 1..DaysInYear(EpochYear)
    /\ contacts \in {rows \in SUBSET BirthdayRows(now) :
                        Cardinality(rows) <= MaxContacts}
    /\ nextId = 5
    /\ resp = NoResp
    /\ issued = [e \in Emails |-> None]
    /\ used = Unused
    /\ creator = <<>>
    /\ reqs = [s \in Served |-> Idle]

\* one birthdays request in a behaviour: the request writes nothing, so
\* another one changes nothing it reads
GetBirthdays ==
    \E s \in Served, days \in 0..MaxDays, offset \in 0..1 :
        /\ \A o \in Served : "days" \notin DOMAIN reqs[o]
        /\ get_birthdays(s, days, LimitMin, offset)

GetBirthdaysExecute == \E s \in Served : get_birthdays_execute(s)

\* a create request arrives while a birthdays request awaits its SELECT
CreateBirthdayContact ==
    \E s \in Served, body \in BirthdayBodies(now) :
        /\ \E o \in Served : reqs[o].pc = "execute"
        /\ Cardinality(contacts) < MaxContacts
        /\ create_contact_commit(s, None, body)

\* midnight passes while a birthdays request awaits its SELECT
TickBirthdays ==
    /\ now < DaysInYear(EpochYear)
    /\ \E s \in Served : reqs[s].pc = "execute" /\ reqs[s].today = now
    /\ now' = now + 1
    /\ UNCHANGED <<users, contacts, nextId, resp, issued, used, creator, reqs>>

NextBirthdays ==
    \/ GetBirthdays
    \/ GetBirthdaysExecute
    \/ CreateBirthdayContact
    \/ CreateContactRefresh
    \/ TickBirthdays

SpecBirthdays == InitBirthdays /\ [][NextBirthdays]_vars

(***************************************************************************)
(* SpecUpdate: update requests that carry any subset of the fields, each   *)
(* with a value the stored contacts do not have, and delete requests,      *)
(* their steps interleaved in any order.                                   *)
(***************************************************************************)
UpdateRows ==
    { [id |-> i, first_name |-> "Test", last_name |-> "Family",
       email |-> "t@ua.ua", phone_number |-> "0501234567",
       birthday |-> [year |-> 1990, month |-> 6, day |-> 12]] : i \in 1..2 }

NewValues ==
    [first_name |-> "Other", last_name |-> "Changed", email |-> "n@ua.ua",
     phone_number |-> "0509999999",
     birthday |-> [year |-> 1991, month |-> 7, day |-> 1]]

Payloads == {[f \in sent |-> NewValues[f]] : sent \in SUBSET ContactFields}

InitUpdate ==
    /\ users = InitUsers
    /\ contacts \in SUBSET UpdateRows
    /\ nextId = 3
    /\ now = 0
    /\ resp = NoResp
    /\ issued = [e \in Emails |-> None]
    /\ used = Unused
    /\ creator = <<>>
    /\ reqs = [s \in Served |-> Idle]

UpdateContactRequest ==
    \E s \in Served, payload \in Payloads, id \in ContactIds :
        update_contact_request(s, payload, id)

NextUpdate ==
    \/ UpdateContactRequest
    \/ UpdateContactCommit
    \/ UpdateContactRefresh
    \/ DeleteContactExecute
    \/ DeleteContactCommit

SpecUpdate == InitUpdate /\ [][NextUpdate]_vars

(***************************************************************************)
(* SpecSession: database/db.py.  Every request runs inside                 *)
(* "async with session_manager.session() as session" (get_db); reqs holds, *)
(* per request, where that statement stands, whether an exception is in    *)
(* flight, and the calls made on the session in their order.               *)
(***************************************************************************)
Requests == 1..MaxRequests

NoSession == [pc |-> "idle", raised |-> FALSE, exc |-> FALSE, calls |-> <<>>,
              outcome |-> "none"]

InitSession ==
    /\ users = InitUsers
    /\ contacts = {}
    /\ nextId = 1
    /\ now = 0
    /\ resp = NoResp
    /\ issued = [e \in Emails |-> None]
    /\ used = Unused
    /\ creator = <<>>
    /\ reqs = [r \in Requests |-> NoSession]

\* session = self._session_maker(); try: yield session
session_yield(r) ==
    /\ reqs[r].pc = "idle"
    /\ reqs' = [reqs EXCEPT ![r].pc = "body"]
    /\ UNCHANGED <<users, contacts, nextId, now, resp, issued, used, creator>>

\* the body of the with statement ends without an exception
body_returns(r) ==
    /\ reqs[r].pc = "body"
    /\ reqs' = [reqs EXCEPT ![r].pc = "finally"]
    /\ UNCHANGED <<users, contacts, nextId, now, resp, issued, used, creator>>

\* what the body of the with statement can raise: an Exception, or a
\* BaseException that is none (asyncio.CancelledError of a cancelled
\* request, KeyboardInterrupt, SystemExit)
Raised == {"Exception", "BaseException"}

\* the body of the with statement raises, and the exception is thrown into
\* the generator at the yield: "except Exception" takes an Exception and no
\* other BaseException
body_raises(r, kind) ==
    /\ reqs[r].pc = "body"
    /\ reqs' = [reqs EXCEPT ![r].pc = IF kind = "Exception" THEN "except"
                                      ELSE "finally",
                            ![r].raised = TRUE, ![r].exc = TRUE]
    /\ UNCHANGED <<users, contacts, nextId, now, resp, issued, used, creator>>

\* except Exception as err: print(err); await session.rollback().  The
\* clause has no raise, so the exception ends here
session_except(r) ==
    /\ reqs[r].pc = "except"
    /\ reqs' = [reqs EXCEPT ![r].pc = "finally", ![r].exc = FALSE,
                            ![r].calls = Append(@, "rollback")]
    /\ UNCHANGED <<users, contacts, nextId, now, resp, issued, used, creator>>

\* finally: await session.close().  The with statement then raises the
\* exception that is still in flight, or completes
session_finally(r) ==
    /\ reqs[r].pc = "finally"
    /\ reqs' = [reqs EXCEPT ![r].pc = "done",
                            ![r].calls = Append(@, "close"),
                            ![r].outcome = IF reqs[r].exc THEN "raised"
                                           ELSE "completed"]
    /\ UNCHANGED <<users, contacts, nextId, now, resp, issued, used, creator>>

NextSession ==
    \/ \E r \in Requests : session_yield(r)
    \/ \E r \in Requests : body_returns(r)
    \/ \E r \in Requests, kind \in Raised : body_raises(r, kind)
    \/ \E r \in Requests : session_except(r)
    \/ \E r \in Requests : session_finally(r)

SpecSession == InitSession /\ [][NextSession]_vars

(***************************************************************************)
(* Properties of the account requests.                                     *)
(***************************************************************************)
Registered(email) == \E i \in 1..Len(users) : users[i].email = email

Stored(email) ==
    LET rows == {i \in 1..Len(users) : users[i].email = email}
    IN  users[CHOOSE i \in rows : TRUE].refresh_token

StoredNext(email) ==
    LET rows == {i \in 1..Len(users') : users'[i].email = email}
    IN  users'[CHOOSE i \in rows : TRUE].refresh_token

Confirmed(email) ==
    \E i \in 1..Len(users) : users[i].email = email /\ users[i].confirmed

\* C1: a refresh token that a refresh request was answered 200 for is
\* refused by every refresh request that arrives with it afterwards: the
\* request is answered 401 at once, or it goes on to the invalidation, is
\* answered 401 and leaves the stored refresh token of its user null.
C1_RotatedTokenNeverReused ==
    [][\A s \in Served :
          /\ \A t \in used.tokens :
                (refresh_token_decode(s, t) /\ reqs'[s].pc = "done")
                    => resp'.status = 401
          /\ ( /\ s \in used.later
               /\ reqs[s].pc = "get_user"
               /\ refresh_token_get_user(s) )
             => /\ reqs'[s].pc = "commit"
                /\ reqs'[s].refresh_token = None
          /\ ( /\ s \in used.later
               /\ reqs[s].pc = "refresh"
               /\ refresh_token_refresh(s) )
             => /\ resp'.status = 401
                /\ StoredNext(resp'.email) = None]_vars

\* C3: the stored refresh token of every user is null or the refresh token
\* issued last to that user, whenever no login or refresh of the user has
\* made a token that it has yet to commit; and a login or refresh that is
\* answered with a pair has committed once and leaves stored exactly the
\* token it returns.
C3_StoredIsLastIssued ==
    /\ [](\A i \in 1..Len(users) :
            (\A s \in Served :
                (reqs[s].pc = "commit" /\ reqs[s].refresh_token # None)
                    => reqs[s].user.email # users[i].email)
            => users[i].refresh_token \in {None, issued[users[i].email]})
    /\ [][\A s \in Served :
            ( /\ reqs[s].pc = "refresh"
              /\ login_refresh(s) \/ refresh_token_refresh(s)
              /\ resp'.status \in {200, 201} )
            => /\ resp'.commits = 1
               /\ resp'.refresh_token # None
               /\ StoredNext(resp'.email) = resp'.refresh_token]_vars

\* C4: a refresh request with a refresh token that the token service has
\* accepted and that differs from the value stored for its subject (null
\* included) when the request reads the row makes no token and goes on to
\* store null; the commit leaves the stored value null, unless the row it
\* read has been written by another request since; then it is answered 401
\* "Invalid refresh token" without a token.
C4_MismatchInvalidates ==
    [][\A s \in Served :
          /\ ( /\ reqs[s].pc = "get_user"
               /\ reqs[s].op = "refresh"
               /\ Registered(reqs[s].email)
               /\ Stored(reqs[s].email) # reqs[s].token
               /\ refresh_token_get_user(s) )
             => /\ reqs'[s].pc = "commit"
                /\ reqs'[s].token = reqs[s].token
                /\ reqs'[s].access_token = None
                /\ reqs'[s].refresh_token = None
                /\ issued' = issued
                /\ users' = users
          /\ ( /\ reqs[s].pc = "commit"
               /\ reqs[s].op = "refresh"
               /\ reqs[s].refresh_token = None
               /\ refresh_token_commit(s) )
             => /\ issued' = issued
                /\ reqs'[s].refresh_token = None
                /\ \/ StoredNext(reqs[s].email) = None
                   \/ Stored(reqs[s].email) # reqs[s].user.refresh_token
          /\ ( /\ reqs[s].pc = "refresh"
               /\ reqs[s].op = "refresh"
               /\ reqs[s].refresh_token = None
               /\ refresh_token_refresh(s) )
             => /\ resp'.status = 401
                /\ resp'.detail = "Invalid refresh token"
                /\ resp'.access_token = None
                /\ resp'.refresh_token = None
                /\ issued' = issued
                /\ users' = users]_vars

\* C4 witness: a stale but acceptable refresh token of a user who has logged
\* in was refused and the stored token is null.
C4_Witness ==
    /\ resp.op = "refresh"
    /\ resp.scope = "refresh_token"
    /\ resp.intact
    /\ resp.detail = "Invalid refresh token"
    /\ issued[resp.email] # None
    /\ Stored(resp.email) = None

\* C5: a token of one scope is never accepted where another is expected,
\* even when it is signed and unexpired: a refresh request with an access
\* or email token is answered 401 and rotates nothing, a confirm request
\* with an access or refresh token is answered 401 and confirms nobody, and
\* a request that needs the current user is answered 401 with a refresh or
\* email token.
C5_ScopeSeparation ==
    [][\A s \in Served :
          (reqs[s].pc = "idle" /\ reqs'[s].pc # "idle") =>
          LET op == IF reqs'[s].pc = "done" THEN resp'.op ELSE reqs'[s].op
          IN  /\ op = "refresh" =>
                    \A t \in Tokens(now) :
                      ( /\ t.scope # "refresh_token"
                        /\ refresh_token_decode(s, t) )
                      => /\ resp'.status = 401
                         /\ resp'.refresh_token = None
                         /\ users' = users
                         /\ issued' = issued
                         /\ reqs' = Ended(s)
              /\ op = "confirm" =>
                    \A t \in Tokens(now) :
                      ( /\ t.scope # "email_token"
                        /\ confirmed_email_decode(s, t) )
                      => /\ resp'.status = 401
                         /\ users' = users
                         /\ reqs' = Ended(s)
              /\ op = "update_avatar" =>
                    \A t \in Tokens(now), url \in Urls :
                      ( /\ t.scope # "access_token"
                        /\ update_avatar_user(s, t, url) )
                      => /\ resp'.status = 401
                         /\ users' = users
                         /\ reqs' = Ended(s)]_vars

\* C5 witness: a signed, unexpired access token of a logged-in user was
\* presented to the refresh request and refused; the user stays logged in.
C5_Witness ==
    /\ resp.op = "refresh"
    /\ resp.scope = "access_token"
    /\ resp.intact
    /\ resp.status = 401
    /\ Registered(resp.email)
    /\ Stored(resp.email) # None

\* C8: signup with an email that is already registered fails with 409,
\* whatever the username and password, and leaves the users table unchanged.
C8_DuplicateSignupConflict ==
    [][\A s \in Served, u \in Usernames, e \in Emails, p \in Passwords :
          (Registered(e) /\ signup(s, u, e, p)) =>
              /\ resp'.status = 409
              /\ users' = users]_vars

\* C8 witness: a signup for a registered email was answered 409.
C8_Witness ==
    /\ resp.op = "signup"
    /\ Registered(resp.email)
    /\ resp.status = 409

\* C9: signup with an email that is not registered succeeds and adds exactly
\* one row (one add, one commit) with the payload's username and email, the
\* hash of the password, confirmed false and no refresh token.
C9_SignupCreatesUser ==
    [][\A s \in Served, u \in Usernames, e \in Emails, p \in Passwords :
          (~Registered(e) /\ signup(s, u, e, p)) =>
              /\ resp'.status = 201
              /\ resp'.adds = 1
              /\ resp'.commits = 1
              /\ Len(users') = Len(users) + 1
              /\ SubSeq(users', 1, Len(users)) = users
              /\ LET new == users'[Len(users')]
                 IN  /\ new.username = u
                     /\ new.email = e
                     /\ verify_password(p, new.password)
                     /\ ~new.confirmed
                     /\ new.refresh_token = None]_vars

\* C10: login with an unknown email or with a password that does not verify
\* is answered 401 without a token, makes and stores no token and leaves
\* every user row and the record of issued tokens unchanged.
C10_FailedLoginChangesNothing ==
    [][\A s \in Served, e \in Emails, p \in Passwords :
          ( /\ \A i \in 1..Len(users) :
                  users[i].email = e => ~verify_password(p, users[i].password)
            /\ login_get_user(s, e, p) )
          => /\ resp'.op = "login"
             /\ resp'.status = 401
             /\ resp'.access_token = None
             /\ resp'.refresh_token = None
             /\ users' = users
             /\ issued' = issued
             /\ reqs' = Ended(s)]_vars

\* C10 witness: a login with a wrong password was refused while the user
\* holds a stored refresh token.
C10_Witness ==
    /\ resp.op = "login"
    /\ resp.detail = "Invalid password"
    /\ resp.status = 401
    /\ Stored(resp.email) # None

\* C11: the confirmed flag of a user never goes back from true to false,
\* whatever step of whatever request is taken, and it goes from false to
\* true only in the commit of a confirm-email request whose token was a
\* signed, unexpired email token with that user's email as subject.
C11_ConfirmedIsTerminal ==
    [][\A i \in 1..Len(users) :
          /\ i <= Len(users')
          /\ users[i].confirmed => users'[i].confirmed
          /\ (~users[i].confirmed /\ users'[i].confirmed) =>
                /\ resp'.op = "confirm"
                /\ resp'.scope = "email_token"
                /\ resp'.intact
                /\ resp'.email = users[i].email
                /\ resp'.detail = "Email confirmed"]_vars

\* C11 witness: a user who is confirmed has logged in afterwards and is
\* still confirmed, while the other user is not.
C11_Witness ==
    /\ resp.op = "login"
    /\ resp.status = 201
    /\ \E i \in 1..Len(users) :
          users[i].email = resp.email /\ users[i].confirmed
    /\ \E i \in 1..Len(users) : ~users[i].confirmed

\* C12: a confirm-email request with a signed, unexpired email token of a
\* user who is confirmed already when the request reads the row answers 200
\* "Your email is already confirmed", commits nothing and leaves the users
\* table unchanged; the token that confirmed the user is one of these
\* tokens.
C12_AlreadyConfirmedIsNoOp ==
    [][\A s \in Served :
          ( /\ reqs[s].pc = "get_user"
            /\ reqs[s].op = "confirm"
            /\ Confirmed(reqs[s].email)
            /\ confirmed_email_get_user(s) )
          => /\ resp'.op = "confirm"
             /\ resp'.scope = "email_token"
             /\ resp'.status = 200
             /\ resp'.detail = "Your email is already confirmed"
             /\ resp'.commits = 0
             /\ users' = users
             /\ reqs' = Ended(s)]_vars

\* C12 witness: at tick 0, where the one valid email token of a user is the
\* token issued at tick 0, the user is confirmed and a confirm-email request
\* for the same user was answered "already confirmed".
C12_Witness ==
    /\ now = 0
    /\ resp.op = "confirm"
    /\ resp.scope = "email_token"
    /\ resp.intact
    /\ Confirmed(resp.email)
    /\ resp.detail = "Your email is already confirmed"
    /\ resp.commits = 0

\* C13: a confirm-email request with a signed, unexpired email token whose
\* subject is the email of no user fails with 400 "Verification error",
\* commits nothing and changes the confirmed flag of no user.
C13_UnknownSubjectConfirmsNobody ==
    [][\A s \in Served :
          ( /\ reqs[s].pc = "get_user"
            /\ reqs[s].op = "confirm"
            /\ ~Registered(reqs[s].email)
            /\ confirmed_email_get_user(s) )
          => /\ resp'.op = "confirm"
             /\ resp'.scope = "email_token"
             /\ resp'.status = 400
             /\ resp'.detail = "Verification error"
             /\ resp'.commits = 0
             /\ reqs' = Ended(s)
             /\ Len(users') = Len(users)
             /\ \A i \in 1..Len(users) :
                   users'[i].confirmed = users[i].confirmed]_vars

\* C13 witness: a valid email token for an email that no user has was
\* presented and answered 400, while a user who can be confirmed exists.
C13_Witness ==
    /\ resp.op = "confirm"
    /\ resp.scope = "email_token"
    /\ resp.intact
    /\ ~Registered(resp.email)
    /\ resp.status = 400
    /\ \E i \in 1..Len(users) : ~users[i].confirmed

\* C14: a refresh request with a refresh token that the token service has
\* accepted and whose subject is the email of no user fails with 401, returns
\* no token and writes nothing.
C14_RefreshUnknownUserUnauthorized ==
    [][\A s \in Served :
          ( /\ reqs[s].pc = "get_user"
            /\ reqs[s].op = "refresh"
            /\ ~Registered(reqs[s].email)
            /\ refresh_token_get_user(s) )
          => /\ resp'.op = "refresh"
             /\ resp'.status = 401
             /\ resp'.access_token = None
             /\ resp'.refresh_token = None
             /\ users' = users
             /\ issued' = issued
             /\ reqs' = Ended(s)]_vars

(***************************************************************************)
(* Properties of concurrent refresh requests.                              *)
(***************************************************************************)
\* C2: of two refresh requests that present the same refresh token and run
\* concurrently, at most one succeeds and returns a new token pair.
C2_AtMostOneConcurrentRefresh ==
    \A s1 \in Sessions : \A s2 \in Sessions \ {s1} :
        ( /\ reqs[s1].pc = "done"
          /\ reqs[s2].pc = "done"
          /\ reqs[s1].overlap
          /\ reqs[s2].overlap
          /\ reqs[s1].token = reqs[s2].token )
        => ~(reqs[s1].status = 200 /\ reqs[s2].status = 200)

(***************************************************************************)
(* Properties of the contact requests.                                     *)
(***************************************************************************)
ContactOps ==
    {"get_contacts", "get_contact", "create_contact", "update_contact",
     "delete_contact"}

\* C6: a contact request whose access token does not validate against a
\* user record (no token, or an invalid one) neither reads nor changes the
\* contacts table: it is given no contact, it is not taken on to a commit,
\* and no step of it changes the table.
C6_ContactsNeedAuthentication ==
    [][\A s \in Served :
          reqs'[s] # reqs[s] =>
          /\ \A cred \in Credentials :
                Caller(cred) = "anonymous" =>
                  /\ \A id \in ContactIds :
                        get_contact(s, cred, id) => resp'.items = {}
                  /\ \A offset \in 0..1 :
                        get_contacts(s, cred, LimitMin, offset)
                            => resp'.items = {}
                  /\ \A body \in ContactBodies :
                        create_contact_commit(s, cred, body)
                            => contacts' = contacts
                  /\ \A body \in ContactBodies, id \in ContactIds :
                        update_contact_execute(s, cred, body, id)
                            => reqs'[s] = Done
                  /\ \A id \in ContactIds :
                        delete_contact_execute(s, cred, id)
                            => reqs'[s] = Done /\ resp'.items = {}
          /\ ( /\ reqs[s].pc \in {"commit", "refresh"}
               /\ reqs[s].caller = "anonymous" )
             => contacts' = contacts]_vars

\* C7: a get, update or delete sent by one user returns or affects only a
\* contact that this user created; a contact another user created is
\* neither shown to the request nor changed by any step of it.
C7_ContactsScopedPerUser ==
    [][\A s \in Served :
          reqs'[s] # reqs[s] =>
          /\ \A cred \in Credentials, id \in ContactIds :
                ( /\ id \in DOMAIN creator
                  /\ creator[id] # "anonymous"
                  /\ Caller(cred) # "anonymous"
                  /\ creator[id] # Caller(cred) ) =>
                  /\ get_contact(s, cred, id) => resp'.items = {}
                  /\ \A body \in ContactBodies :
                        update_contact_execute(s, cred, body, id)
                            => reqs'[s] = Done
                  /\ delete_contact_execute(s, cred, id)
                        => reqs'[s] = Done /\ resp'.items = {}
          /\ ( /\ reqs[s].pc = "commit"
               /\ reqs[s].caller # "anonymous"
               /\ creator[reqs[s].loaded.id] \notin
                     {"anonymous", reqs[s].caller} )
             => contacts' = contacts]_vars

(***************************************************************************)
(* Properties of search.                                                   *)
(***************************************************************************)
\* text a occurs in text b as a run of consecutive characters, case ignored
IsSubstring(a, b) ==
    \E i \in 0..(Len(b) - Len(a)) :
        lower(SubSeq(b, i + 1, i + Len(a))) = lower(a)

Matching(text, tbl) ==
    {c \in tbl : \/ IsSubstring(text, c.first_name)
                 \/ IsSubstring(text, c.last_name)
                 \/ IsSubstring(text, c.email)}

\* C15: a search for a text of three or more characters returns, when the
\* page holds every match, exactly the contacts that have the text as a
\* substring, case ignored, of first_name or of last_name or of email.
C15_SearchIsSubstringMatch ==
    [][( /\ Len(reqs.search_text) >= 3
         /\ search_contacts(reqs.search_text, LimitMin, 0) )
       => resp'.items = Matching(reqs.search_text, contacts)]_vars

\* C16: a search for a text shorter than three characters is refused with
\* 400 without a call of the repository, and a search for a longer text that
\* no contact matches is answered 404 "NOT FOUND", never 200 with an empty
\* list.
C16_SearchBoundary ==
    [][\A offset \in 0..1 :
          search_contacts(reqs.search_text, LimitMin, offset) =>
            /\ Len(reqs.search_text) < 3 =>
                  /\ resp'.status = 400
                  /\ resp'.queries = 0
                  /\ resp'.items = {}
            /\ ( /\ Len(reqs.search_text) >= 3
                 /\ repo_search_contacts(reqs.search_text, LimitMin, 0,
                                         contacts) = {{}} ) =>
                  /\ resp'.status = 404
                  /\ resp'.detail = "NOT FOUND"
                  /\ resp'.queries = 1
                  /\ resp'.items = {}
            /\ resp'.status = 200 => resp'.items # {}]_vars

\* C16 witness: a search for a text of three characters over a table that
\* holds contacts, none of them a match, was answered 404.
C16_Witness ==
    /\ resp.op = "search_contacts"
    /\ Len(reqs.search_text) >= 3
    /\ contacts # {}
    /\ repo_search_contacts(reqs.search_text, LimitMin, 0, contacts) = {{}}
    /\ resp.status = 404
    /\ resp.queries = 1

(***************************************************************************)
(* Properties of the birthday window.                                      *)
(***************************************************************************)
\* the birthday of contact c is the month and day of date d
BornOn(c, d) == c.birthday.month = d.month /\ c.birthday.day = d.day

\* C17: for a lookahead days > 0, today the day the request read and end =
\* today + days, a birthdays request returns a contact of the table it reads
\* if and only if today.month <= birthday.month <= end.month and today.day
\* <= birthday.day <= end.day, whatever the year of the birthday; on
\* 2024-06-10 with days = 5 a contact born on 06-12 is returned and one
\* born on 07-01 is not.
C17_BirthdayIndependentBounds ==
    [][\A s \in Served :
        ( /\ reqs[s].pc = "execute"
          /\ reqs[s].op = "get_birthdays"
          /\ reqs[s].days > 0
          /\ reqs[s].offset = 0
          /\ get_birthdays_execute(s) ) =>
        LET today == date_today(reqs[s].today)
            end == date_add(today, reqs[s].days)
        IN  /\ \A c \in contacts :
                  c \in resp'.items <=>
                    /\ today.month <= c.birthday.month
                    /\ c.birthday.month <= end.month
                    /\ today.day <= c.birthday.day
                    /\ c.birthday.day <= end.day
            /\ ( /\ today = [year |-> 2024, month |-> 6, day |-> 10]
                 /\ reqs[s].days = 5 ) =>
                  \A c \in contacts :
                    /\ BornOn(c, [year |-> 2024, month |-> 6, day |-> 12])
                          => c \in resp'.items
                    /\ BornOn(c, [year |-> 2024, month |-> 7, day |-> 1])
                          => c \notin resp'.items]_vars

\* C17 witness: a request that arrived on 2024-06-10 with days = 5 and
\* read a table with a contact born on 06-12 and one born on 07-01 returned
\* the first and not the second.
C17_Witness ==
    \E s \in Served :
        /\ reqs[s].pc = "done"
        /\ "days" \in DOMAIN reqs[s]
        /\ date_today(reqs[s].today) = [year |-> 2024, month |-> 6, day |-> 10]
        /\ reqs[s].days = 5
        /\ reqs[s].offset = 0
        /\ resp.op = "get_birthdays"
        /\ resp.status = 200
        /\ \E c \in contacts :
              /\ BornOn(c, [year |-> 2024, month |-> 6, day |-> 12])
              /\ c.birthday.year # 2024
              /\ c \in resp.items
        /\ \E c \in contacts :
              /\ BornOn(c, [year |-> 2024, month |-> 7, day |-> 1])
              /\ c \notin resp.items

\* C18: a birthdays request with lookahead days > 0 returns the contacts of
\* the table it reads whose birthday is one of the next days, counted from
\* the day the request read, and no others: a contact born on the month and
\* day of today + k, 0 < k < days, is returned (tomorrow and the day after
\* for days = 3), and every contact returned is born on the month and day
\* of today + k for some k in 0..days (so not yesterday).
C18_BirthdaysWithinNextDays ==
    [][\A s \in Served :
        ( /\ reqs[s].pc = "execute"
          /\ reqs[s].op = "get_birthdays"
          /\ reqs[s].days > 0
          /\ reqs[s].offset = 0
          /\ get_birthdays_execute(s) ) =>
        \A c \in contacts :
          /\ (\E k \in 1..(reqs[s].days - 1) :
                  BornOn(c, date_add(date_today(reqs[s].today), k)))
                => c \in resp'.items
          /\ c \in resp'.items
                => \E k \in 0..reqs[s].days :
                      BornOn(c, date_add(date_today(reqs[s].today), k))]_vars

(***************************************************************************)
(* Properties of update and delete.                                        *)
(***************************************************************************)
\* C19: an update request for an existing contact is taken on to the commit,
\* which sets every field its payload carries to the value sent and leaves
\* every other field with its stored value (a payload with email alone
\* changes email and nothing else), and changes no other contact; a request
\* for an id that no contact has changes nothing and is answered 404.
C19_UpdateAppliesSuppliedFields ==
    [][\A s \in Served :
          reqs'[s] # reqs[s] =>
          /\ \A payload \in Payloads, id \in ContactIds :
                update_contact_request(s, payload, id) =>
                    IF repo_get_contact(id, contacts) = NoContact
                    THEN /\ contacts' = contacts
                         /\ ContactUpdateSchema(payload).ok
                               => resp'.status = 404
                    ELSE /\ reqs'[s].pc = "commit"
                         /\ \A f \in DOMAIN payload :
                               reqs'[s].contact[f] = payload[f]
          /\ (reqs[s].pc = "commit" /\ update_contact_commit(s)) =>
                LET old == repo_get_contact(reqs[s].loaded.id, contacts)
                    new == repo_get_contact(reqs[s].loaded.id, contacts')
                    sent == IF reqs[s].body.birthday = NoDate
                            THEN RequiredFields ELSE ContactFields
                IN  old # NoContact =>
                      /\ new # NoContact
                      /\ contacts' \ {new} = contacts \ {old}
                      /\ \A f \in ContactFields :
                            new[f] = IF f \in sent THEN reqs[s].body[f]
                                     ELSE old[f]]_vars

\* C20: a delete request for an existing contact goes on to a commit that
\* removes that contact and no other, with one commit; a delete request for
\* an id that no contact has (a second delete of the same id included)
\* changes nothing, commits nothing and is answered 404, not with a success
\* status.
C20_DeleteIdempotentNotFound ==
    [][\A s \in Served :
          reqs'[s] # reqs[s] =>
          /\ \A cred \in Credentials, id \in ContactIds :
                delete_contact_execute(s, cred, id) =>
                    IF repo_get_contact(id, contacts) = NoContact
                    THEN /\ contacts' = contacts
                         /\ resp'.commits = 0
                         /\ resp'.status = 404
                    ELSE /\ reqs'[s].pc = "commit"
                         /\ reqs'[s].loaded = repo_get_contact(id, contacts)
          /\ (reqs[s].pc = "commit" /\ delete_contact_commit(s)) =>
                /\ contacts' = {c \in contacts : c.id # reqs[s].loaded.id}
                /\ resp'.commits = 1]_vars

(***************************************************************************)
(* Properties of the database session of a request.                        *)
(***************************************************************************)
\* the number of times call c was made on the session of request r
Count(r, c) ==
    Cardinality({i \in 1..Len(reqs[r].calls) : reqs[r].calls[i] = c})

\* C21: the session of a request is never closed twice and is closed once
\* when the request has ended; a request whose body raised has rolled back
\* and then closed, and ends with the exception raised to its caller; a
\* request whose body returned has closed without a rollback.
C21_SessionClosedOnceFailureSurfaces ==
    \A r \in Requests :
        /\ Count(r, "close") <= 1
        /\ reqs[r].pc = "done" =>
              IF reqs[r].raised
              THEN /\ reqs[r].calls = <<"rollback", "close">>
                   /\ reqs[r].outcome = "raised"
              ELSE /\ reqs[r].calls = <<"close">>
                   /\ reqs[r].outcome = "completed"

(***************************************************************************)
(* Properties of the avatar update.                                        *)
(***************************************************************************)
\* the avatar a fresh session reads from the row with that email after the
\* request: the value of the avatar column, if the row has one
PersistedAvatarNext(email) ==
    LET rows == {i \in 1..Len(users') : users'[i].email = email}
        row == users'[CHOOSE i \in rows : TRUE]
    IN  IF "avatar" \in DOMAIN row THEN row.avatar ELSE "none"

\* C23: when update_avatar(email, url) returns for a user of the users
\* table, the request is answered 200, the row of that user holds the url as
\* its avatar, the change was committed, and the row of no other user has
\* changed.
C23_AvatarPersisted ==
    [][\A s \in Served :
          ( /\ reqs[s].pc = "update_avatar"
            /\ Registered(reqs[s].email)
            /\ update_avatar_get_user(s) )
          => /\ resp'.status = 200
             /\ resp'.commits = 1
             /\ PersistedAvatarNext(reqs[s].email) = reqs[s].url
             /\ \A i \in 1..Len(users) :
                   users[i].email # reqs[s].email => users'[i] = users[i]]_vars

====
